---- MODULE Spec2Model ----
(***************************************************************************)
(* Sainsbury's Splitter (src/split.py): a Streamlit wizard that reads a    *)
(* receipt, lets the user review the items (step 1), choose who shares     *)
(* each item (step 2), and computes and posts the split (step 3).          *)
(*                                                                         *)
(* Every Streamlit interaction reruns the script once; one action below is *)
(* one such script run with one widget changed or one button clicked.      *)
(*                                                                         *)
(* Money.  The program holds prices as binary64 pounds.  Here an amount is *)
(* the integer number of 1/Unit pennies, so that every product and         *)
(* quotient the allocation forms (x 0.85, x (1 - e/100), / 1..3) is an     *)
(* integer, and round() is round-half-to-even as Python's round() is.      *)
(* Binary64 evaluation can differ from this only where a total falls on an *)
(* exact half penny; the price and discount sets below were chosen so that *)
(* for every receipt within the bounds, and within the bounds raised by    *)
(* one, the two give the same totals (compared exhaustively against the    *)
(* Python code).                                                           *)
(***************************************************************************)
EXTENDS Integers, Sequences, FiniteSets, TLC

\* ---------------------------------------------------------------- bounds
\* Longest receipt the wizard holds (number of line items at once).
MaxReceipt == 1

\* Longest receipt given to the allocation on its own (SpecAlloc).
MaxItems == 2

\* Prices (whole pennies) the extraction service returns: {price >= 0}.
ExtractPrices == {1}
\* Prices typed into the Review step's price box (no min_value: line 311).
EditPrices == {-1, 1}
\* Prices typed into "Add missing item" (min_value=0.0: line 325).
AddPrices == {1}
\* Values given to the sidebar's extra-discount box (0.0 .. 100.0: line 168).
ExtraDiscounts == {0, 10}

\* Selections made in a Split step multiselect.
SplitChoices == {{}, {"Joe"}, {"Joe", "Nic"}, {"Joe", "Nic", "Nat"}}

\* Inputs of the allocation taken on its own (specification SpecAlloc).
AllocPrices == {0, 1, 10000}
AllocDiscounts == {0, 10, 100}

\* ------------------------------------------------------------- constants
PEOPLE == <<"Joe", "Nic", "Nat">>

Roster == {PEOPLE[i] : i \in 1..Len(PEOPLE)}

\* Units per penny: 100 (for x 0.85) x 100 (for x (1 - e/100)) x 6 (for / 1, 2, 3).
Unit == 100 * 100 * 6

\* float(item["price"]): a price of p pennies as an amount.
float(pennies) == pennies * Unit

\* Python's round(v * 100) of an amount v: to the nearest penny, ties to even.
round(v) ==
    LET q == v \div Unit
        r == v % Unit
    IN  IF 2 * r < Unit THEN q
        ELSE IF 2 * r > Unit THEN q + 1
        ELSE IF q % 2 = 0 THEN q ELSE q + 1

\* An additive composition (15% + extra% off the original price).
discounted_price_additive(price, flat, extra) ==
    (price \div 100) * (100 - (IF flat THEN 15 ELSE 0) - (IF extra > 0 THEN extra ELSE 0))

discounted_price(price, flat, extra) ==
    LET p1 == IF flat THEN (price \div 100) * 85 ELSE price
        p2 == IF extra > 0 THEN (p1 \div 100) * (100 - extra) ELSE p1
    IN  p2

\* ------------------------------------------------------------------ state
VARIABLES
    step,            \* st.session_state.step: 0 upload, 1 review, 2 split, 3 finalise
    receipt_items,   \* st.session_state.receipt_items: sequence of [id, price]
    assignments,     \* st.session_state.assignments: item id -> set of people
    apply_15,        \* sidebar checkbox "15% Colleague Discount"
    extra_discount,  \* sidebar number input "Extra Discount (%)"
    payer_radio,     \* the "Who paid today?" radio's current value
    final_totals,    \* st.session_state.final_totals (empty domain: key absent)
    payer,           \* st.session_state.payer ("" : key absent)
    clicked,         \* the handler the last script run executed: "finalise" (nothing
                     \* stored before), "finalise again", "create" or "other"
    request,         \* <<payload>> posted to the ledger in the last run, or <<>>
    response,        \* <<answer>> of the ledger in the last run, or <<>>
    outcome          \* what the last run showed: "success", "error" or "none"

vars == <<step, receipt_items, assignments, apply_15, extra_discount, payer_radio,
          final_totals, payer, clicked, request, response, outcome>>

NoTotals == [p \in {} |-> 0]

HasTotals == DOMAIN final_totals # {}

ItemIds == {receipt_items[i].id : i \in 1..Len(receipt_items)}

\* uuid.uuid4(): an id no live item or assignment carries.
uuid4 == CHOOSE i \in 1..(MaxReceipt + 1) :
            /\ i \notin (ItemIds \cup DOMAIN assignments)
            /\ \A j \in 1..(i - 1) : j \in (ItemIds \cup DOMAIN assignments)

\* A script run that posts nothing: what the previous run showed is gone.
Ran(button) ==
    /\ clicked' = button
    /\ request' = <<>>
    /\ response' = <<>>
    /\ outcome' = "none"

\* ------------------------------------------------------------- allocation
\* The split of one item among the roster instead of among its sharers.
share_of_roster(price, split) == price \div Len(PEOPLE)

\* share = price / len(split)
share(price, split) == price \div Cardinality(split)

\* Crediting every roster member instead of the item's sharers.
credit_everyone(exact_totals, split, sh) ==
    [p \in Roster |-> exact_totals[p] + sh]

\* for person in split: exact_totals[person] += share
credit(exact_totals, split, sh) ==
    [p \in Roster |-> exact_totals[p] + (IF p \in split THEN sh ELSE 0)]

\* The loop over st.session_state.receipt_items, from the totals so far.
RECURSIVE allocate(_, _, _, _, _)
allocate(items, asg, flat, extra, exact_totals) ==
    IF items = <<>> THEN exact_totals
    ELSE LET item  == Head(items)
             split == IF item.id \in DOMAIN asg THEN asg[item.id] ELSE {}
             price == discounted_price(float(item.price), flat, extra)
         IN  allocate(Tail(items), asg, flat, extra,
                      IF split = {} THEN exact_totals
                      ELSE credit(exact_totals, split, share(price, split)))

\* Keeping totals already stored instead of computing them again.
FinaliseTotalsKept ==
    IF HasTotals THEN final_totals
    ELSE LET exact_totals == allocate(receipt_items, assignments, apply_15,
                                      extra_discount, [p \in Roster |-> 0])
         IN  [p \in Roster |-> round(exact_totals[p])]

\* exact_totals = {p: 0.0 ...}; the loop; final_totals = {p: round(v * 100) ...}
FinaliseTotals ==
    LET exact_totals == allocate(receipt_items, assignments, apply_15,
                                 extra_discount, [p \in Roster |-> 0])
    IN  [p \in Roster |-> round(exact_totals[p])]

\* ----------------------------------------------------------------- ledger
RECURSIVE SumOver(_, _)
SumOver(f, people) ==
    IF people = <<>> THEN 0 ELSE f[Head(people)] + SumOver(f, Tail(people))

\* grand = sum(final_totals.values())
grand(totals) == SumOver(totals, PEOPLE)

\* f"{pennies / 100:.2f}": the text of an amount, as sign, pounds and pence digits.
fmt2(pennies) ==
    LET a == IF pennies < 0 THEN 0 - pennies ELSE pennies
    IN  [sign |-> IF pennies < 0 THEN "-" ELSE "", pounds |-> a \div 100, pence |-> a % 100]

\* The literal "0.00" given to everyone but the payer as paid_share.
ZeroShare == [sign |-> "", pounds |-> 0, pence |-> 0]

user_ids == [p \in Roster |->
    CASE p = "Joe" -> "SPLITWISE_USER_JOE"
      [] p = "Nic" -> "SPLITWISE_USER_NIC"
      [] p = "Nat" -> "SPLITWISE_USER_NAT"]

\* A payload in which the payer owes nothing.
create_splitwise_expense_payer_free(total_pennies, paid_by, totals) ==
    LET total_amount == fmt2(total_pennies)
        others == SelectSeq(PEOPLE, LAMBDA q : q # paid_by)
    IN  [cost  |-> total_amount,
         users |-> <<[user_id |-> user_ids[paid_by], paid_share |-> total_amount,
                      owed_share |-> ZeroShare]>>
                   \o [i \in 1..Len(others) |->
                         [user_id |-> user_ids[others[i]], paid_share |-> ZeroShare,
                          owed_share |-> fmt2(totals[others[i]])]]]

\* The form data create_splitwise_expense posts: users__0 is the payer, then the
\* others in user_ids order (description, date and group_id carry no amounts).
create_splitwise_expense(total_pennies, paid_by, totals) ==
    LET total_amount == fmt2(total_pennies)
        others == SelectSeq(PEOPLE, LAMBDA q : q # paid_by)
    IN  [cost  |-> total_amount,
         users |-> <<[user_id |-> user_ids[paid_by], paid_share |-> total_amount,
                      owed_share |-> fmt2(totals[paid_by])]>>
                   \o [i \in 1..Len(others) |->
                         [user_id |-> user_ids[others[i]], paid_share |-> ZeroShare,
                          owed_share |-> fmt2(totals[others[i]])]]]

\* What the ledger service may answer: the call raises (no connection, a body
\* that is not JSON), or returns an HTTP status and a JSON body with or without
\* a non-empty "expenses" list and with or without a non-empty "errors" object.
Responses ==
    {[raised |-> TRUE, status |-> 0, expenses |-> FALSE, errors |-> FALSE]}
    \cup [raised : {FALSE}, status : {200, 500}, expenses : BOOLEAN, errors : BOOLEAN]

\* try: ... if expenses and not errors: st.success ... else: st.error ...
\* except Exception: st.error
shown(resp) ==
    IF resp.raised THEN "error"
    ELSE IF resp.expenses /\ ~resp.errors THEN "success" ELSE "error"

\* ------------------------------------------------------------------- Init
\* A fresh session: only step is set; the sidebar widgets hold their defaults.
Init ==
    /\ step = 0
    /\ receipt_items = <<>>
    /\ assignments = <<>>
    /\ apply_15 = TRUE
    /\ extra_discount = 0
    /\ payer_radio = PEOPLE[1]
    /\ final_totals = NoTotals
    /\ payer = ""
    /\ clicked = "other"
    /\ request = <<>>
    /\ response = <<>>
    /\ outcome = "none"

\* ------------------------------------------------------- sidebar (any step)
ToggleColleagueDiscount ==
    /\ apply_15' = ~apply_15
    /\ UNCHANGED <<step, receipt_items, assignments, extra_discount, payer_radio,
                   final_totals, payer>>
    /\ Ran("other")

SetExtraDiscount(e) ==
    /\ e # extra_discount
    /\ extra_discount' = e
    /\ UNCHANGED <<step, receipt_items, assignments, apply_15, payer_radio,
                   final_totals, payer>>
    /\ Ran("other")

\* "New Receipt": every session key is deleted and the script reruns.
NewReceipt ==
    /\ step' = 0
    /\ receipt_items' = <<>>
    /\ assignments' = <<>>
    /\ final_totals' = NoTotals
    /\ payer' = ""
    /\ payer_radio' = PEOPLE[1]
    /\ UNCHANGED <<apply_15, extra_discount>>
    /\ Ran("other")

\* ------------------------------------------------------ step 0: upload, scan
\* "Analyse Receipt": the extraction's items are stored with fresh ids and
\* everyone assigned to each.  (A failing extraction shows an error and
\* changes nothing.)
AnalyseReceipt(prices) ==
    /\ step = 0
    /\ receipt_items' = [i \in 1..Len(prices) |-> [id |-> i, price |-> prices[i]]]
    /\ assignments' = [i \in 1..Len(prices) |-> Roster]
    /\ step' = 1
    /\ UNCHANGED <<apply_15, extra_discount, payer_radio, final_totals, payer>>
    /\ Ran("other")

\* ------------------------------------------------------------ step 1: review
\* A price box is changed: the run stores the widgets' values as the items.
EditPrice(i, price) ==
    /\ step = 1
    /\ i \in 1..Len(receipt_items)
    /\ price # receipt_items[i].price
    /\ receipt_items' = [receipt_items EXCEPT ![i].price = price]
    /\ UNCHANGED <<step, assignments, apply_15, extra_discount, payer_radio,
                   final_totals, payer>>
    /\ Ran("other")

\* The item's delete button: the item is left out and its assignment popped.
DeleteItem(i) ==
    /\ step = 1
    /\ i \in 1..Len(receipt_items)
    /\ receipt_items' = [k \in 1..(Len(receipt_items) - 1) |->
                            IF k < i THEN receipt_items[k] ELSE receipt_items[k + 1]]
    /\ assignments' = [k \in DOMAIN assignments \ {receipt_items[i].id} |-> assignments[k]]
    /\ UNCHANGED <<step, apply_15, extra_discount, payer_radio, final_totals, payer>>
    /\ Ran("other")

\* "Add" with a name given: a new item, shared by everyone.  (Without a name
\* the run only warns.)
AddItem(price) ==
    /\ step = 1
    /\ Len(receipt_items) < MaxReceipt
    /\ LET new_id == uuid4
       IN  /\ receipt_items' = Append(receipt_items, [id |-> new_id, price |-> price])
           /\ assignments' = [k \in DOMAIN assignments \cup {new_id} |->
                                 IF k = new_id THEN Roster ELSE assignments[k]]
    /\ UNCHANGED <<step, apply_15, extra_discount, payer_radio, final_totals, payer>>
    /\ Ran("other")

NextToSplit ==
    /\ step = 1
    /\ step' = 2
    /\ UNCHANGED <<receipt_items, assignments, apply_15, extra_discount, payer_radio,
                   final_totals, payer>>
    /\ Ran("other")

\* ------------------------------------------------------------- step 2: split
\* The item's multiselect is changed: assignments[item_id] = selected.
SelectSplit(i, selected) ==
    /\ step = 2
    /\ i \in 1..Len(receipt_items)
    /\ LET item_id == receipt_items[i].id
       IN  /\ item_id \in DOMAIN assignments => selected # assignments[item_id]
           /\ assignments' = [k \in DOMAIN assignments \cup {item_id} |->
                                 IF k = item_id THEN selected ELSE assignments[k]]
    /\ UNCHANGED <<step, receipt_items, apply_15, extra_discount, payer_radio,
                   final_totals, payer>>
    /\ Ran("other")

\* The item's "All" button: the multiselect is set to PEOPLE[:].
SelectAll(i) ==
    /\ step = 2
    /\ i \in 1..Len(receipt_items)
    /\ LET item_id == receipt_items[i].id
       IN  assignments' = [k \in DOMAIN assignments \cup {item_id} |->
                              IF k = item_id THEN Roster ELSE assignments[k]]
    /\ UNCHANGED <<step, receipt_items, apply_15, extra_discount, payer_radio,
                   final_totals, payer>>
    /\ Ran("other")

BackToReview ==
    /\ step = 2
    /\ step' = 1
    /\ UNCHANGED <<receipt_items, assignments, apply_15, extra_discount, payer_radio,
                   final_totals, payer>>
    /\ Ran("other")

NextToFinalise ==
    /\ step = 2
    /\ step' = 3
    /\ UNCHANGED <<receipt_items, assignments, apply_15, extra_discount, payer_radio,
                   final_totals, payer>>
    /\ Ran("other")

\* ---------------------------------------------------------- step 3: finalise
SelectPayer(person) ==
    /\ step = 3
    /\ person # payer_radio
    /\ payer_radio' = person
    /\ UNCHANGED <<step, receipt_items, assignments, apply_15, extra_discount,
                   final_totals, payer>>
    /\ Ran("other")

\* "Finalise Split": the allocation and the radio's payer are stored.
FinaliseSplit ==
    /\ step = 3
    /\ final_totals' = FinaliseTotals
    /\ payer' = payer_radio
    /\ UNCHANGED <<step, receipt_items, assignments, apply_15, extra_discount,
                   payer_radio>>
    /\ Ran(IF HasTotals THEN "finalise again" ELSE "finalise")

\* "Create Splitwise Expense", shown once final_totals is stored: the stored
\* totals and payer are posted and the answer decides what is shown.
CreateExpense(resp) ==
    /\ step = 3
    /\ HasTotals
    /\ clicked' = "create"
    /\ request' = <<create_splitwise_expense(grand(final_totals), payer, final_totals)>>
    /\ response' = <<resp>>
    /\ outcome' = shown(resp)
    /\ UNCHANGED <<step, receipt_items, assignments, apply_15, extra_discount,
                   payer_radio, final_totals, payer>>

\* "Back to Split": the radio is no longer drawn and forgets its value.
BackToSplit ==
    /\ step = 3
    /\ step' = 2
    /\ payer_radio' = PEOPLE[1]
    /\ UNCHANGED <<receipt_items, assignments, apply_15, extra_discount,
                   final_totals, payer>>
    /\ Ran("other")

\* ---------------------------------------------------------- specifications
\* What the extraction returns: at least one line (a receipt without lines is
\* reached by deleting them in the Review step).
Receipts == UNION {[1..n -> ExtractPrices] : n \in 1..MaxReceipt}

Next ==
    \/ ToggleColleagueDiscount
    \/ \E e \in ExtraDiscounts : SetExtraDiscount(e)
    \/ NewReceipt
    \/ \E prices \in Receipts : AnalyseReceipt(prices)
    \/ \E i \in 1..MaxReceipt, price \in EditPrices : EditPrice(i, price)
    \/ \E i \in 1..MaxReceipt : DeleteItem(i)
    \/ \E price \in AddPrices : AddItem(price)
    \/ NextToSplit
    \/ \E i \in 1..MaxReceipt, selected \in SplitChoices : SelectSplit(i, selected)
    \/ \E i \in 1..MaxReceipt : SelectAll(i)
    \/ BackToReview
    \/ NextToFinalise
    \/ \E person \in Roster : SelectPayer(person)
    \/ FinaliseSplit
    \/ \E resp \in Responses : CreateExpense(resp)
    \/ BackToSplit

Spec == Init /\ [][Next]_vars

\* The allocation on its own: the session stands at step 3 with any receipt,
\* any assignment, any discount setting and any payer selected.
InitAlloc ==
    /\ step = 3
    /\ \E n \in 0..MaxItems :
          /\ \E prices \in [1..n -> AllocPrices] :
                receipt_items = [i \in 1..n |-> [id |-> i, price |-> prices[i]]]
          /\ assignments \in [1..n -> SUBSET Roster]
    /\ apply_15 \in BOOLEAN
    /\ extra_discount \in AllocDiscounts
    /\ payer_radio \in Roster
    /\ final_totals = NoTotals
    /\ payer = ""
    /\ clicked = "other"
    /\ request = <<>>
    /\ response = <<>>
    /\ outcome = "none"

Accepted == [raised |-> FALSE, status |-> 200, expenses |-> TRUE, errors |-> FALSE]

NextAlloc ==
    \/ FinaliseSplit
    \/ CreateExpense(Accepted)

SpecAlloc == InitAlloc /\ [][NextAlloc]_vars

\* ------------------------------------------------------------ properties
\* The last script run executed the Finalise Split handler.
Finalised == clicked \in {"finalise", "finalise again"}

\* The last script run executed the Create Splitwise Expense handler.
Posted == clicked = "create"

NumItems == Len(receipt_items)

\* The participant set of the i-th item.
SplitOf(i) ==
    IF receipt_items[i].id \in DOMAIN assignments
    THEN assignments[receipt_items[i].id] ELSE {}

\* The i-th item's discounted price under the current settings, as an amount.
ItemAmount(i) ==
    discounted_price(float(receipt_items[i].price), apply_15, extra_discount)

\* round(discounted_price(item) * 100): the i-th item's price in whole pennies.
ItemPennies(i) == round(ItemAmount(i))

\* Sum of the rounded discounted prices of the first n items that somebody shares.
RECURSIVE SharedPennies(_)
SharedPennies(n) ==
    IF n = 0 THEN 0
    ELSE SharedPennies(n - 1) + (IF SplitOf(n) # {} THEN ItemPennies(n) ELSE 0)

\* What person p owes for the first n items: an equal part of every item p shares.
RECURSIVE Owes(_, _)
Owes(p, n) ==
    IF n = 0 THEN 0
    ELSE Owes(p, n - 1)
         + (IF p \in SplitOf(n) THEN ItemAmount(n) \div Cardinality(SplitOf(n)) ELSE 0)

\* The allocation of the items, assignments and settings as they are now.
CurrentAllocation == [p \in Roster |-> round(Owes(p, NumItems))]

\* C1 (conservation): after Finalise, the participants' penny totals sum to the
\* sum of the rounded discounted prices of the items with a non-empty
\* participant set.
C1_Conservation ==
    Finalised => grand(final_totals) = SharedPennies(NumItems)

\* C2 (remainder distribution): after Finalise of a single item of P rounded
\* pennies shared by the set S, every member of S holds floor(P/|S|) or one penny
\* more, and exactly P mod |S| members hold the extra penny.
C2_RemainderDistributed ==
    (Finalised /\ NumItems = 1 /\ SplitOf(1) # {}) =>
        LET P == ItemPennies(1)
            S == SplitOf(1)
            n == Cardinality(S)
        IN  /\ \A m \in S : final_totals[m] \in {P \div n, (P \div n) + 1}
            /\ Cardinality({m \in S : final_totals[m] = (P \div n) + 1}) = P % n

\* The items somebody shares, in order.
SharedItems ==
    SelectSeq(receipt_items,
              LAMBDA item : item.id \in DOMAIN assignments /\ assignments[item.id] # {})

\* C3 (only the assigned participants pay): after Finalise, the totals are those
\* of the receipt without its unshared items, and a participant who is in no
\* item's participant set holds exactly 0.
C3_OnlyParticipantsPay ==
    Finalised =>
        /\ \A p \in Roster :
              final_totals[p] =
                  round(allocate(SharedItems, assignments, apply_15, extra_discount,
                                 [q \in Roster |-> 0])[p])
        /\ \A p \in Roster :
              (\A i \in 1..NumItems : p \notin SplitOf(i)) => final_totals[p] = 0

\* Finalise ran on a receipt with a priced item nobody shares and another item
\* that leaves somebody out, who holds 0 while a sharer holds pennies.
C3_Witness ==
    /\ Finalised
    /\ \E i \in 1..NumItems : SplitOf(i) = {} /\ receipt_items[i].price > 0
    /\ \E p, q \in Roster :
          /\ \A i \in 1..NumItems : p \notin SplitOf(i)
          /\ final_totals[p] = 0
          /\ final_totals[q] > 0

\* C4 (discount composition): discounted_price is the price times 0.85 exactly
\* when the flat discount is on, times (1 - extra/100) exactly when extra > 0, not
\* rounded: 100.00 gives 85.00 (flat), 76.50 (flat, 10%) and 100.00 (neither), and
\* one penny under the flat discount gives 0.85 of a penny.
C4_DiscountComposition ==
    \A i \in 1..NumItems :
        LET pennies == receipt_items[i].price
            d       == ItemAmount(i)
            flat    == IF apply_15 THEN 85 ELSE 100
            pct     == IF extra_discount > 0 THEN 100 - extra_discount ELSE 100
        IN  /\ d = pennies * (Unit \div (100 * 100)) * flat * pct
            /\ (pennies = 10000 /\ apply_15 /\ extra_discount = 0) => d = float(8500)
            /\ (pennies = 10000 /\ apply_15 /\ extra_discount = 10) => d = float(7650)
            /\ (pennies = 10000 /\ ~apply_15 /\ extra_discount = 0) => d = float(10000)
            /\ (pennies = 1 /\ apply_15 /\ extra_discount = 0) => d # float(round(d))

\* Finalise discounted an item of 100.00 with the flat discount and 10% extra.
C4_Witness ==
    /\ Finalised
    /\ apply_15
    /\ extra_discount = 10
    /\ \E i \in 1..NumItems : receipt_items[i].price = 10000 /\ SplitOf(i) # {}

\* C5 (single participant): after Finalise of a single item assigned to exactly
\* one participant, that participant holds the item's rounded discounted price and
\* everyone else holds 0.
C5_SingleParticipant ==
    (Finalised /\ NumItems = 1 /\ Cardinality(SplitOf(1)) = 1) =>
        \A p \in Roster :
            final_totals[p] = IF p \in SplitOf(1) THEN ItemPennies(1) ELSE 0

\* Finalise ran on a single discounted item of 100.00 assigned to Nic alone.
C5_Witness ==
    /\ Finalised
    /\ NumItems = 1
    /\ SplitOf(1) = {"Nic"}
    /\ receipt_items[1].price = 10000
    /\ apply_15
    /\ final_totals["Nic"] = 8500

pennies_of(text) ==
    (IF text.sign = "-" THEN 0 - 1 ELSE 1) * (text.pounds * 100 + text.pence)

\* The roster member a ledger user id stands for.
PersonOf(uid) == CHOOSE p \in Roster : user_ids[p] = uid

RECURSIVE OwedSum(_, _)
OwedSum(users, n) ==
    IF n = 0 THEN 0 ELSE OwedSum(users, n - 1) + pennies_of(users[n].owed_share)

\* C7 (ledger payload): the posted request lists every roster participant exactly
\* once; the payer's paid_share is the grand total and everyone else's is 0.00;
\* everyone's owed_share is that participant's stored total; and the owed_shares
\* sum to the payer's paid_share.
C7_LedgerPayload ==
    Posted =>
        LET users == request[1].users
        IN  /\ \A p \in Roster :
                  Cardinality({i \in 1..Len(users) : users[i].user_id = user_ids[p]}) = 1
            /\ Len(users) = Cardinality(Roster)
            /\ pennies_of(request[1].cost) = grand(final_totals)
            /\ \A i \in 1..Len(users) :
                  LET p == PersonOf(users[i].user_id)
                  IN  /\ pennies_of(users[i].owed_share) = final_totals[p]
                      /\ pennies_of(users[i].paid_share) =
                            (IF p = payer THEN grand(final_totals) ELSE 0)
            /\ \E i \in 1..Len(users) :
                  /\ PersonOf(users[i].user_id) = payer
                  /\ OwedSum(users, Len(users)) = pennies_of(users[i].paid_share)

\* A request was posted with Nat as payer, Nat and somebody else owing pennies.
C7_Witness ==
    /\ Posted
    /\ payer = "Nat"
    /\ final_totals["Nat"] > 0
    /\ \E p \in Roster \ {"Nat"} : final_totals[p] > 0

\* C8 (ledger failure is shown as an error): when the ledger call raised, or
\* answered with a status outside 200..299, or with an "errors" payload, the
\* Create Splitwise Expense run shows the error outcome.
C8_FailureShownAsError ==
    Posted =>
        LET r == response[1]
        IN  (r.raised \/ r.status \notin 200..299 \/ r.errors) => outcome = "error"

\* C9 (no invalid input reaches the allocation): whenever the Finalise handler
\* has run, every item's price is >= 0 and the extra discount is within 0..100.
C9_ValidInputAtFinalise ==
    Finalised =>
        /\ \A i \in 1..NumItems : receipt_items[i].price >= 0
        /\ extra_discount \in 0..100

\* C10 (no stale allocation is posted): whenever Create Splitwise Expense has
\* run, the totals posted, with the stored payer, are the allocation of the items,
\* assignments and discount settings as they are in that run.
C10_PostedAllocationIsCurrent ==
    Posted =>
        request[1] = create_splitwise_expense(grand(CurrentAllocation), payer,
                                              CurrentAllocation)

====
